---- MODULE Spec2Model ----
(***************************************************************************)
(* Model of the heft delete-files engine                                   *)
(* (apps/heft/src/plugins/DeleteFilesPlugin.ts).                           *)
(*                                                                         *)
(* deleteFilesAsync resolves every delete operation to concrete paths      *)
(* (_getPathsToDeleteAsync), then deletes the files, then the folders      *)
(* (_deleteFilesInnerAsync), each fan-out going through Async.forEachAsync *)
(* with concurrency Constants.maxParallelism.                              *)
(*                                                                         *)
(* Async.forEachAsync, FileSystem.deleteFileAsync/deleteFolderAsync,       *)
(* FileSystem.isNotExistError, getFileSelectionSpecifierPathsAsync and     *)
(* Constants.maxParallelism live in other packages of the repository; they *)
(* are modelled from the design document (spec.md sections 4-7).           *)
(***************************************************************************)
EXTENDS Naturals, Integers, Sequences, FiniteSets, TLC

VARIABLES
  fs,              \* the live filesystem: the set of paths that exist
  fs0,             \* the filesystem when the current run started (history)
  locked,          \* paths whose deletion fails with a permission error
  ops,             \* deleteOperations: a sequence of selectors
  selFail,         \* index of the operation whose selector throws (0: none)
  run,             \* number of the current call of deleteFilesAsync
  prevStatus,      \* how the previous run settled ("none" for the first)
  phase,           \* "resolve" | "files" | "folders" | "end"
  status,          \* the promise of deleteFilesAsync: "running" | "resolved" | "rejected"
  runError,        \* the error deleteFilesAsync rejected with
  firstError,      \* the first non-missing deletion error any callback hit (history)
  opNext,          \* iterator position of the resolution fan-out
  opInflight,      \* selector calls in flight
  filesToDelete,   \* result.filesToDelete, in Set insertion order
  foldersToDelete, \* result.foldersToDelete, in Set insertion order
  fileNext,        \* iterator position of the file fan-out
  fileInflight,    \* FileSystem.deleteFileAsync calls in flight
  folderNext,      \* iterator position of the folder fan-out
  folderInflight,  \* FileSystem.deleteFolderAsync calls in flight
  deletedFiles,    \* let deletedFiles
  deletedFolders,  \* let deletedFolders
  terminal,        \* the lines written to the ITerminal, in order
  outcome,         \* path -> what its deletion call reported (history)
  calls,           \* path -> number of deletion calls issued on it (history)
  extLeft,         \* removals the environment may still perform
  interfered,      \* the environment removed something during this run (history)
  waited           \* the fan-outs of this run in which an entry had to wait
                   \* for a free slot (history)

vars == <<fs, fs0, locked, ops, selFail, run, prevStatus, phase, status, runError,
          firstError, opNext, opInflight, filesToDelete, foldersToDelete,
          fileNext, fileInflight, folderNext, folderInflight, deletedFiles,
          deletedFolders, terminal, outcome, calls, extLeft, interfered, waited>>

----------------------------------------------------------------------------
(* Bounds of the model *)

MaxOps == 2        \* longest list of delete operations
MaxLocked == 1     \* most paths that are permission-locked
MaxExternal == 1   \* most removals by the environment
MaxRuns == 2       \* calls of deleteFilesAsync on the same operations

----------------------------------------------------------------------------
(* The path universe: /proj/build with two files and a sub-folder, and a   *)
(* file and a folder next to it.                                           *)

Build == "/proj/build"
FileA == "/proj/build/a.txt"
FileB == "/proj/build/b.txt"
Sub == "/proj/build/sub"
LockedTxt == "/proj/locked.txt"
Temp == "/proj/temp"

Paths == {Build, FileA, FileB, Sub, LockedTxt, Temp}

\* fs.Dirent.isDirectory() of the entry at a path.
IsDirectory(p) == p \in {Build, Sub, Temp}

\* The folder that contains a path ("" for an entry directly under /proj).
Parent(p) == IF p \in {FileA, FileB, Sub} THEN Build ELSE ""

Children(p, files) == {c \in files : Parent(c) = p}

\* A path and everything below it.
Subtree(p) == {p} \cup {c \in Paths : Parent(c) = p}

\* A filesystem holds an entry only together with its parent folder.
IsFileSystem(files) == \A p \in files : Parent(p) = "" \/ Parent(p) \in files

\* The selectors the operations are drawn from (each glob is given by the
\* paths it matches).
Patterns ==
  { {Build, FileA, FileB, Sub},      \* build plus build/*
    {FileA, FileB, LockedTxt},       \* **/*.txt
    {Build, Sub},                    \* the folders only
    {FileA, LockedTxt} }             \* a.txt, locked.txt

Range(s) == {s[i] : i \in 1..Len(s)}


----------------------------------------------------------------------------
(* External collaborators, modelled from the design document *)

\* Constants.maxParallelism: the single maximum of in-flight operations.
maxParallelism == 2

\* The order in which a selector reports the paths it found.
PathOrder == <<Build, FileA, FileB, Sub, LockedTxt, Temp>>

\* getFileSelectionSpecifierPathsAsync({fileGlobSpecifier, includeFolders: true}):
\* the entries of the live filesystem the glob matches, as the keys of the
\* returned Map (the Dirent of a key p is IsDirectory(p)).
SelectPaths(pattern, files) ==
  SelectSeq(PathOrder, LAMBDA p : p \in pattern /\ p \in files)

\* FileSystem.deleteFileAsync(path, {throwIfNotExists: true}): what the call reports.
DeleteFileResult(p, files, lockedPaths) ==
  IF p \notin files THEN "ENOENT"
  ELSE IF p \in lockedPaths THEN "EPERM"
  ELSE "ok"

\* FileSystem.deleteFolderAsync(path): removal of an (empty) directory.
DeleteFolderResult(p, files, lockedPaths) ==
  IF p \notin files THEN "ENOENT"
  ELSE IF p \in lockedPaths THEN "EPERM"
  ELSE IF Children(p, files) # {} THEN "ENOTEMPTY"
  ELSE "ok"

\* FileSystem.isNotExistError(error)
isNotExistError(res) == res = "ENOENT"

\* A deletion call failed for a reason other than the target not existing.
IsHardFailure(res) == res \in {"EPERM", "ENOTEMPTY"}

\* Async.forEachAsync starts another callback: the iterator has an entry left,
\* fewer than `concurrency` callbacks are in flight, and it has not settled.
ForEachMayStart(next, len, inflight, concurrency, st) ==
  /\ st = "running"
  /\ next <= len
  /\ Cardinality(inflight) < concurrency

\* Async.forEachAsync resolves: the iterator is exhausted, no callback is in
\* flight, and no callback has rejected.
ForEachResolved(next, len, inflight, st) ==
  /\ st = "running"
  /\ next > len
  /\ inflight = {}

\* Async.forEachAsync rejects with the first error a callback throws; a later
\* reject() of the settled promise changes nothing.
RejectStatus(st) == IF st = "running" THEN "rejected" ELSE st
RejectError(st, current, e) == IF st = "running" THEN e ELSE current

----------------------------------------------------------------------------
(* Errors and terminal lines *)

NoError == [code |-> "none", path |-> "", op |-> 0]
DeletionError(res, p) == [code |-> res, path |-> p, op |-> 0]
SelectionError(i) == [code |-> "SelectionError", path |-> "", op |-> i]

\* terminal.writeVerboseLine(`Deleted "${pathToDelete}".`)
VerboseFileLine(p) ==
  [sev |-> "verbose", text |-> "Deleted", path |-> p,
   files |-> 0, fileNoun |-> "", folders |-> 0, folderNoun |-> ""]

\* terminal.writeVerboseLine(`Deleted folder "${folderToDelete}".`)
VerboseFolderLine(p) ==
  [sev |-> "verbose", text |-> "Deleted folder", path |-> p,
   files |-> 0, fileNoun |-> "", folders |-> 0, folderNoun |-> ""]

\* (variant: the nouns are always plural)
SummaryLine_AlwaysPlural(nf, nd) ==
  [sev |-> "line", text |-> "Deleted", path |-> "",
   files |-> nf, fileNoun |-> "files", folders |-> nd, folderNoun |-> "folders"]

\* `Deleted ${deletedFiles} file${...} and ${deletedFolders} folder${...}`
SummaryLine(nf, nd) ==
  [sev |-> "line", text |-> "Deleted", path |-> "",
   files |-> nf, fileNoun |-> IF nf # 1 THEN "files" ELSE "file",
   folders |-> nd, folderNoun |-> IF nd # 1 THEN "folders" ELSE "folder"]

\* if (deletedFiles > 0 || deletedFolders > 0) terminal.writeLine(...)
Report(term, nf, nd) ==
  IF nf > 0 \/ nd > 0 THEN Append(term, SummaryLine(nf, nd)) ELSE term

----------------------------------------------------------------------------
(* _getPathsToDeleteAsync *)

\* (variant: the paths are collected in an array, without deduplication)
SetAdd_NoDedup(s, p) == Append(s, p)

\* Set.prototype.add on a Set kept in insertion order.
SetAdd(s, p) == IF p \in Range(s) THEN s ELSE Append(s, p)

\* (variant: each operation's result replaces the sets instead of joining them)
MergeSourcePaths_Overwrite(files, folders, sourcePaths) ==
  [files |-> SelectSeq(sourcePaths, LAMBDA p : ~IsDirectory(p)),
   folders |-> SelectSeq(sourcePaths, IsDirectory)]

\* for (const [sourcePath, dirent] of sourcePaths) { ... add ... }
RECURSIVE MergeSourcePaths(_, _, _)
MergeSourcePaths(files, folders, sourcePaths) ==
  IF sourcePaths = <<>> THEN [files |-> files, folders |-> folders]
  ELSE LET sourcePath == Head(sourcePaths) IN
       IF IsDirectory(sourcePath)
       THEN MergeSourcePaths(files, SetAdd(folders, sourcePath), Tail(sourcePaths))
       ELSE MergeSourcePaths(SetAdd(files, sourcePath), folders, Tail(sourcePaths))

\* (variant: the callback catches the selector's error and carries on)
SelectionThrows_Swallowed(i, failing) == FALSE

\* const sourcePaths = await getFileSelectionSpecifierPathsAsync(...): the
\* callback has no try block, so a selector error leaves it as thrown.
SelectionThrows(i, failing) == i = failing

\* The three { concurrency: Constants.maxParallelism } options.
\* (variant: the resolution fan-out is given a wider limit of its own)
ResolveConcurrency_Wider == maxParallelism + 1
ResolveConcurrency == maxParallelism
\* (variant: the file fan-out is given a wider limit of its own)
FileConcurrency_Wider == maxParallelism + 1
FileConcurrency == maxParallelism
\* (variant: the folder fan-out is given a wider limit of its own)
FolderConcurrency_Wider == maxParallelism + 1
FolderConcurrency == maxParallelism

----------------------------------------------------------------------------
(* deleteFilesAsync and _deleteFilesInnerAsync: sequencing of the awaits *)

\* (variant: deletion starts on the sets while resolution is still running)
FilesMayStart_NoAwait(ph) == ph \in {"resolve", "files"}

\* The file fan-out runs once `await _getPathsToDeleteAsync` has returned.
FilesMayStart(ph) == ph = "files"

\* (variant: the file fan-out is not awaited before the folder fan-out starts)
FoldersMayStart_NoAwait(ph) == ph \in {"files", "folders"}

\* The folder fan-out runs once `await Async.forEachAsync(filesToDelete, ...)`
\* has returned.
FoldersMayStart(ph) == ph = "folders"

\* (variant: the folder fan-out never settles on an empty foldersToDelete)
PhaseAfterFiles_EmptyNeverSettles(folders) == "folders"

\* (variant: the function returns after the file fan-out)
PhaseAfterFiles_SkipFolders(folders) == "end"

\* Where the run stands when the file fan-out has resolved: an empty
\* foldersToDelete makes the folder fan-out resolve at once.
PhaseAfterFiles(folders) == IF Len(folders) > 0 THEN "folders" ELSE "end"

\* (variant: the folders are deleted before the files)
PhaseAfterResolve_FoldersFirst(files, folders) ==
  IF Len(folders) > 0 THEN "folders" ELSE IF Len(files) > 0 THEN "files" ELSE "end"

\* Where the run stands when resolution has returned.
PhaseAfterResolve(files, folders) ==
  IF Len(files) > 0 THEN "files" ELSE PhaseAfterFiles(folders)

\* (variant: the catch block rethrows every error)
Rethrows_All(res) == res # "ok"

\* (variant: the catch block swallows every error)
Rethrows_None(res) == FALSE

\* catch (error) { if (!FileSystem.isNotExistError(error)) throw error; }
Rethrows(res) == res # "ok" /\ ~isNotExistError(res)

\* (variant: the catch block throws an error of its own)
ThrownError_Generic(res, p) == [code |-> "Error", path |-> "", op |-> 0]

\* throw error: the error of the deletion call is thrown unchanged.
ThrownError(res, p) == DeletionError(res, p)

\* (variant: the counter is incremented whether or not the call succeeded)
CountAfter_Always(n, res) == n + 1

\* deletedFiles++ / deletedFolders++ at the end of the try block.
CountAfter(n, res) == IF res = "ok" THEN n + 1 ELSE n

\* (variant: the verbose line is written whatever the call reported)
TraceAfter_Always(term, res, line) == Append(term, line)

\* (variant: the verbose line is never written)
TraceAfter_Never(term, res, line) == term

\* terminal.writeVerboseLine at the end of the try block.
TraceAfter(term, res, line) == IF res = "ok" THEN Append(term, line) ELSE term


----------------------------------------------------------------------------
(* Initial states: the first call of deleteFilesAsync is about to start *)

NoOutcome == [p \in Paths |-> "none"]
NoCalls == [p \in Paths |-> 0]

\* The filesystems a run may start from: /proj/build and /proj/locked.txt
\* exist, the entries of /proj/build vary, and there is no /proj/temp.
InitialFileSystems ==
  {files \in SUBSET (Paths \ {Temp}) :
     IsFileSystem(files) /\ Build \in files /\ LockedTxt \in files}

\* The entries that may be permission-locked.
Lockable == {LockedTxt, FileB, Sub}

Init ==
  /\ fs \in InitialFileSystems
  /\ fs0 = fs
  /\ locked \in {l \in SUBSET (fs \cap Lockable) : Cardinality(l) <= MaxLocked}
  /\ ops \in UNION {[1..n -> Patterns] : n \in 0..MaxOps}
  /\ selFail \in 0..Len(ops)
  /\ run = 1
  /\ prevStatus = "none"
  /\ phase = "resolve"
  /\ status = "running"
  /\ runError = NoError
  /\ firstError = NoError
  /\ opNext = 1
  /\ opInflight = {}
  /\ filesToDelete = <<>>
  /\ foldersToDelete = <<>>
  /\ fileNext = 1
  /\ fileInflight = {}
  /\ folderNext = 1
  /\ folderInflight = {}
  /\ deletedFiles = 0
  /\ deletedFolders = 0
  /\ terminal = <<>>
  /\ outcome = NoOutcome
  /\ calls = NoCalls
  /\ extLeft = MaxExternal
  /\ interfered = FALSE
  /\ waited = {}

----------------------------------------------------------------------------
(* _getPathsToDeleteAsync: the resolution fan-out *)

\* (history) The fan-outs in which, so far, an entry of the iterable was left
\* waiting while Constants.maxParallelism callbacks were in flight. The
\* history is kept in the runs that record it (WideSpec) and left alone in
\* the others.
WaitedAfter(recording, w, fanOut, next, len, inflight) ==
  IF recording /\ next <= len /\ Cardinality(inflight) = maxParallelism
  THEN w \cup {fanOut} ELSE w

\* forEachAsync invokes the callback on the next operation: the operation is
\* normalized and its selector call is issued.
StartSelect(recording) ==
  /\ phase = "resolve"
  /\ ForEachMayStart(opNext, Len(ops), opInflight, ResolveConcurrency, status)
  /\ opInflight' = opInflight \cup {opNext}
  /\ opNext' = opNext + 1
  /\ waited' = WaitedAfter(recording, waited, "resolve", opNext', Len(ops), opInflight')
  /\ UNCHANGED <<fs, fs0, locked, ops, selFail, run, prevStatus, phase, status,
                 runError, firstError, filesToDelete, foldersToDelete, fileNext,
                 fileInflight, folderNext, folderInflight, deletedFiles,
                 deletedFolders, terminal, outcome, calls, extLeft, interfered>>

\* deleteOperations is empty: forEachAsync resolves without invoking the
\* callback, _getPathsToDeleteAsync returns the two empty sets, and the run
\* goes on from there (both deletion fan-outs resolve at once and no summary
\* is written).
ResolveWithoutOperations ==
  /\ phase = "resolve"
  /\ Len(ops) = 0
  /\ ForEachResolved(opNext, Len(ops), opInflight, status)
  /\ LET newPhase == PhaseAfterResolve(filesToDelete, foldersToDelete) IN
       /\ phase' = newPhase
       /\ status' = IF newPhase = "end" THEN "resolved" ELSE status
       /\ terminal' = IF newPhase = "end"
                      THEN Report(terminal, deletedFiles, deletedFolders)
                      ELSE terminal
  /\ UNCHANGED <<waited, fs, fs0, locked, ops, selFail, run, prevStatus, runError,
                 firstError, opNext, opInflight, filesToDelete, foldersToDelete,
                 fileNext, fileInflight, folderNext, folderInflight,
                 deletedFiles, deletedFolders, outcome, calls, extLeft,
                 interfered>>

\* The selector call of operation i returns (or throws), the callback merges
\* its paths into the two sets, and forEachAsync settles if this was the last.
CompleteSelect(i) ==
  /\ i \in opInflight
  /\ LET thrown == SelectionThrows(i, selFail)
         merged == MergeSourcePaths(filesToDelete, foldersToDelete,
                                    SelectPaths(ops[i], fs))
         newFiles == IF thrown THEN filesToDelete ELSE merged.files
         newFolders == IF thrown THEN foldersToDelete ELSE merged.folders
         left == opInflight \ {i}
         resolved == ~thrown /\ ForEachResolved(opNext, Len(ops), left, status)
         newPhase == IF resolved THEN PhaseAfterResolve(newFiles, newFolders)
                     ELSE phase
     IN
       /\ opInflight' = left
       /\ filesToDelete' = newFiles
       /\ foldersToDelete' = newFolders
       /\ phase' = newPhase
       /\ status' = IF thrown THEN RejectStatus(status)
                    ELSE IF resolved /\ newPhase = "end" THEN "resolved"
                    ELSE status
       /\ runError' = IF thrown THEN RejectError(status, runError, SelectionError(i))
                      ELSE runError
       /\ terminal' = IF resolved /\ newPhase = "end"
                      THEN Report(terminal, deletedFiles, deletedFolders)
                      ELSE terminal
  /\ UNCHANGED <<waited, fs, fs0, locked, ops, selFail, run, prevStatus, firstError,
                 opNext, fileNext, fileInflight, folderNext, folderInflight,
                 deletedFiles, deletedFolders, outcome, calls, extLeft, interfered>>

----------------------------------------------------------------------------
(* _deleteFilesInnerAsync: the file fan-out *)

\* forEachAsync invokes the callback on the next file: deleteFileAsync is issued.
StartFileDelete(recording) ==
  /\ FilesMayStart(phase)
  /\ ForEachMayStart(fileNext, Len(filesToDelete), fileInflight, FileConcurrency, status)
  /\ LET p == filesToDelete[fileNext] IN
       /\ fileInflight' = fileInflight \cup {p}
       /\ calls' = [calls EXCEPT ![p] = @ + 1]
  /\ fileNext' = fileNext + 1
  /\ waited' = WaitedAfter(recording, waited, "files", fileNext', Len(filesToDelete), fileInflight')
  /\ UNCHANGED <<fs, fs0, locked, ops, selFail, run, prevStatus, phase, status,
                 runError, firstError, opNext, opInflight, filesToDelete,
                 foldersToDelete, folderNext, folderInflight, deletedFiles,
                 deletedFolders, terminal, outcome, extLeft, interfered>>

\* deleteFileAsync(p) completes and the rest of the callback runs; when this
\* was the last callback the file fan-out resolves and the run moves on.
CompleteFileDelete(p) ==
  /\ p \in fileInflight
  /\ LET res == DeleteFileResult(p, fs, locked)
         thrown == Rethrows(res)
         left == fileInflight \ {p}
         traced == TraceAfter(terminal, res, VerboseFileLine(p))
         counted == CountAfter(deletedFiles, res)
         resolved == /\ ~thrown
                     /\ phase = "files"
                     /\ ForEachResolved(fileNext, Len(filesToDelete), left, status)
         newPhase == IF resolved THEN PhaseAfterFiles(foldersToDelete) ELSE phase
     IN
       /\ fs' = IF res = "ok" THEN fs \ {p} ELSE fs
       /\ outcome' = [outcome EXCEPT ![p] = res]
       /\ fileInflight' = left
       /\ deletedFiles' = counted
       /\ firstError' = IF IsHardFailure(res) /\ firstError = NoError
                        THEN DeletionError(res, p) ELSE firstError
       /\ phase' = newPhase
       /\ status' = IF thrown THEN RejectStatus(status)
                    ELSE IF resolved /\ newPhase = "end" THEN "resolved"
                    ELSE status
       /\ runError' = IF thrown THEN RejectError(status, runError, ThrownError(res, p))
                      ELSE runError
       /\ terminal' = IF resolved /\ newPhase = "end"
                      THEN Report(traced, counted, deletedFolders)
                      ELSE traced
  /\ UNCHANGED <<waited, fs0, locked, ops, selFail, run, prevStatus, opNext, opInflight,
                 filesToDelete, foldersToDelete, fileNext, folderNext,
                 folderInflight, deletedFolders, calls, extLeft, interfered>>

----------------------------------------------------------------------------
(* _deleteFilesInnerAsync: the folder fan-out and the summary *)

\* forEachAsync invokes the callback on the next folder: deleteFolderAsync is issued.
StartFolderDelete(recording) ==
  /\ FoldersMayStart(phase)
  /\ ForEachMayStart(folderNext, Len(foldersToDelete), folderInflight,
                     FolderConcurrency, status)
  /\ LET p == foldersToDelete[folderNext] IN
       /\ folderInflight' = folderInflight \cup {p}
       /\ calls' = [calls EXCEPT ![p] = @ + 1]
  /\ folderNext' = folderNext + 1
  /\ waited' = WaitedAfter(recording, waited, "folders", folderNext', Len(foldersToDelete),
                           folderInflight')
  /\ UNCHANGED <<fs, fs0, locked, ops, selFail, run, prevStatus, phase, status,
                 runError, firstError, opNext, opInflight, filesToDelete,
                 foldersToDelete, fileNext, fileInflight, deletedFiles,
                 deletedFolders, terminal, outcome, extLeft, interfered>>

\* deleteFolderAsync(p) completes and the rest of the callback runs; when this
\* was the last callback the folder fan-out resolves, the summary is written
\* and deleteFilesAsync resolves.
CompleteFolderDelete(p) ==
  /\ p \in folderInflight
  /\ LET res == DeleteFolderResult(p, fs, locked)
         thrown == Rethrows(res)
         left == folderInflight \ {p}
         traced == TraceAfter(terminal, res, VerboseFolderLine(p))
         counted == CountAfter(deletedFolders, res)
         resolved == /\ ~thrown
                     /\ phase = "folders"
                     /\ ForEachResolved(folderNext, Len(foldersToDelete), left, status)
     IN
       /\ fs' = IF res = "ok" THEN fs \ {p} ELSE fs
       /\ outcome' = [outcome EXCEPT ![p] = res]
       /\ folderInflight' = left
       /\ deletedFolders' = counted
       /\ firstError' = IF IsHardFailure(res) /\ firstError = NoError
                        THEN DeletionError(res, p) ELSE firstError
       /\ phase' = IF resolved THEN "end" ELSE phase
       /\ status' = IF thrown THEN RejectStatus(status)
                    ELSE IF resolved THEN "resolved"
                    ELSE status
       /\ runError' = IF thrown THEN RejectError(status, runError, ThrownError(res, p))
                      ELSE runError
       /\ terminal' = IF resolved THEN Report(traced, deletedFiles, counted)
                      ELSE traced
  /\ UNCHANGED <<waited, fs0, locked, ops, selFail, run, prevStatus, opNext, opInflight,
                 filesToDelete, foldersToDelete, fileNext, fileInflight,
                 folderNext, deletedFiles, calls, extLeft, interfered>>

----------------------------------------------------------------------------
(* The environment *)

\* Something outside the run removes a target (and what is below it) between
\* resolution and deletion.
ExternalRemove(p) ==
  /\ status = "running"
  /\ phase \in {"files", "folders"}
  /\ extLeft > 0
  /\ p \in fs
  /\ fs' = fs \ Subtree(p)
  /\ extLeft' = extLeft - 1
  /\ interfered' = TRUE
  /\ UNCHANGED <<waited, fs0, locked, ops, selFail, run, prevStatus, phase, status,
                 runError, firstError, opNext, opInflight, filesToDelete,
                 foldersToDelete, fileNext, fileInflight, folderNext,
                 folderInflight, deletedFiles, deletedFolders, terminal,
                 outcome, calls>>

\* The caller runs deleteFilesAsync again on the same operations, once the
\* previous call has settled and none of its filesystem calls is outstanding.
RunAgain ==
  /\ run < MaxRuns
  /\ status # "running"
  /\ opInflight = {} /\ fileInflight = {} /\ folderInflight = {}
  /\ run' = run + 1
  /\ prevStatus' = status
  /\ fs0' = fs
  /\ phase' = "resolve"
  /\ status' = "running"
  /\ runError' = NoError
  /\ firstError' = NoError
  /\ opNext' = 1
  /\ filesToDelete' = <<>>
  /\ foldersToDelete' = <<>>
  /\ fileNext' = 1
  /\ folderNext' = 1
  /\ deletedFiles' = 0
  /\ deletedFolders' = 0
  /\ terminal' = <<>>
  /\ outcome' = NoOutcome
  /\ calls' = NoCalls
  /\ interfered' = FALSE
  /\ waited' = {}
  /\ UNCHANGED <<fs, locked, ops, selFail, opInflight, fileInflight,
                 folderInflight, extLeft>>

Next ==
  \/ ResolveWithoutOperations
  \/ StartSelect(FALSE)
  \/ \E i \in 1..MaxOps + 1 : CompleteSelect(i)
  \/ StartFileDelete(FALSE)
  \/ \E p \in Paths : CompleteFileDelete(p)
  \/ StartFolderDelete(FALSE)
  \/ \E p \in Paths : CompleteFolderDelete(p)
  \/ \E p \in Paths : ExternalRemove(p)
  \/ RunAgain

Spec == Init /\ [][Next]_vars

----------------------------------------------------------------------------
(* Large batches: more operations, files and folders than slots *)

\* The selectors of a large batch: everything under /proj, and its folders.
WidePatterns ==
  { Paths,                           \* **/*
    {Build, Sub, Temp} }             \* the folders only

\* deleteFilesAsync is about to start on a filesystem that holds every path,
\* with up to one operation more than MaxOps: past maxParallelism operations,
\* files and folders, each fan-out has entries that must wait for a slot.
WideInit ==
  /\ fs = Paths
  /\ fs0 = fs
  /\ locked = {}
  /\ ops \in UNION {[1..n -> WidePatterns] : n \in 0..MaxOps + 1}
  /\ selFail = 0
  /\ run = 1
  /\ prevStatus = "none"
  /\ phase = "resolve"
  /\ status = "running"
  /\ runError = NoError
  /\ firstError = NoError
  /\ opNext = 1
  /\ opInflight = {}
  /\ filesToDelete = <<>>
  /\ foldersToDelete = <<>>
  /\ fileNext = 1
  /\ fileInflight = {}
  /\ folderNext = 1
  /\ folderInflight = {}
  /\ deletedFiles = 0
  /\ deletedFolders = 0
  /\ terminal = <<>>
  /\ outcome = NoOutcome
  /\ calls = NoCalls
  /\ extLeft = MaxExternal
  /\ interfered = FALSE
  /\ waited = {}

\* The same steps, with the history of waits recorded.
WideNext ==
  \/ ResolveWithoutOperations
  \/ StartSelect(TRUE)
  \/ \E i \in 1..MaxOps + 1 : CompleteSelect(i)
  \/ StartFileDelete(TRUE)
  \/ \E p \in Paths : CompleteFileDelete(p)
  \/ StartFolderDelete(TRUE)
  \/ \E p \in Paths : CompleteFolderDelete(p)
  \/ \E p \in Paths : ExternalRemove(p)
  \/ RunAgain

WideSpec == WideInit /\ [][WideNext]_vars

----------------------------------------------------------------------------
(* Vocabulary of the properties *)

Occurrences(s, p) == Cardinality({i \in 1..Len(s) : s[i] = p})

\* Some operation's selector matches p in the filesystem the run started from.
Selected(p) == \E i \in 1..Len(ops) : p \in ops[i] /\ p \in fs0

FilePaths == Range(filesToDelete)
FolderPaths == Range(foldersToDelete)

\* Every file deletion of the batch has been issued and has completed.
AllFileDeletionsCompleted ==
  /\ fileNext > Len(filesToDelete)
  /\ fileInflight = {}
  /\ \A f \in FilePaths : outcome[f] # "none"

FolderDeletionStarted == \E d \in FolderPaths : calls[d] > 0

\* A file deletion of this run has failed with a non-missing error.
FileDeletionFailed == \E f \in FilePaths : IsHardFailure(outcome[f])

InFlight == Cardinality(opInflight) + Cardinality(fileInflight) + Cardinality(folderInflight)

----------------------------------------------------------------------------
(* C1 - Phase barrier: no folder deletion is started until every file      *)
(* deletion of the same batch has completed, under every interleaving.     *)
C1_PhaseBarrier == FolderDeletionStarted => AllFileDeletionsCompleted

\* A folder deletion is in flight in a batch that had two files to delete.
C1_Witness ==
  /\ folderInflight # {}
  /\ Len(filesToDelete) >= 2
  /\ \A f \in FilePaths : outcome[f] = "ok"

(* C2 - Missing-target tolerance: a deletion call that reports that its    *)
(* target does not exist neither fails the run nor increments a counter.   *)
C2_MissingTargetTolerated ==
  [][\A p \in Paths :
       (outcome[p] = "none" /\ outcome'[p] = "ENOENT") =>
          /\ deletedFiles' = deletedFiles
          /\ deletedFolders' = deletedFolders
          /\ runError' = runError
          /\ (status' = "rejected" => status = "rejected")]_vars

\* A run has resolved although a file and a folder of its sets were missing.
C2_Witness ==
  /\ status = "resolved"
  /\ \E f \in FilePaths : outcome[f] = "ENOENT"
  /\ \E d \in FolderPaths : outcome[d] = "ENOENT"

(* C3 - Ordering invariant: a folder of foldersToDelete that is populated  *)
(* only by files that are also in filesToDelete is never refused as "not   *)
(* empty", under every interleaving of the deletions.                      *)
PopulatedOnlyBySelectedFiles(d) ==
  /\ Children(d, fs0) # {}
  /\ \A c \in Children(d, fs0) : ~IsDirectory(c) /\ c \in FilePaths

C3_NeverNotEmpty ==
  \A d \in FolderPaths :
    PopulatedOnlyBySelectedFiles(d) => outcome[d] # "ENOTEMPTY"

\* /proj/build held a.txt and b.txt, all three were selected, and its
\* deletion has succeeded.
C3_Witness ==
  /\ Children(Build, fs0) = {FileA, FileB}
  /\ Build \in FolderPaths
  /\ PopulatedOnlyBySelectedFiles(Build)
  /\ outcome[Build] = "ok"

(* C4 - Deduplication: once _getPathsToDeleteAsync has returned, a path    *)
(* that overlapping operations selected several times is a member exactly  *)
(* once, and of exactly one of filesToDelete and foldersToDelete.          *)
C4_ExactlyOnce ==
  /\ \A p \in Paths :
       Occurrences(filesToDelete, p) + Occurrences(foldersToDelete, p) <= 1
  /\ phase # "resolve" =>
       \A p \in Paths :
         Selected(p) =>
           Occurrences(filesToDelete, p) + Occurrences(foldersToDelete, p) = 1

\* Resolution has returned for two operations that both selected a file and
\* both selected a folder.
C4_Witness ==
  /\ phase # "resolve"
  /\ Len(ops) = 2
  /\ \E f \in FilePaths : f \in ops[1] /\ f \in ops[2]
  /\ \E d \in FolderPaths : d \in ops[1] /\ d \in ops[2]

(* C5 - Order-independence of resolution: the sets _getPathsToDeleteAsync  *)
(* returns are determined by the operations and the selector results       *)
(* alone, whatever the completion order of the selector calls.             *)
C5_OrderIndependent ==
  phase # "resolve" =>
    /\ FilePaths = {p \in Paths : Selected(p) /\ ~IsDirectory(p)}
    /\ FolderPaths = {p \in Paths : Selected(p) /\ IsDirectory(p)}

\* The second operation's selector call completed before the first one's:
\* b.txt, which only the second selects, was inserted before locked.txt.
C5_Witness ==
  /\ phase # "resolve"
  /\ Len(ops) = 2
  /\ ops[1] = {FileA, LockedTxt}
  /\ filesToDelete = <<FileA, FileB, LockedTxt>>

(* C6 - Bounded concurrency: the number of in-flight operations never      *)
(* exceeds Constants.maxParallelism, and resolution, file deletion and     *)
(* folder deletion are all given that same bound.                          *)
(* Each fan-out keeps at most maxParallelism calls in flight, and starts the *)
(* next entry whenever fewer than maxParallelism are: the limit of each is  *)
(* maxParallelism itself, neither more nor less.                            *)
SlotFree(inflight) == status = "running" /\ Cardinality(inflight) < maxParallelism

C6_BoundedConcurrency ==
  /\ InFlight <= maxParallelism
  /\ Cardinality(opInflight) <= maxParallelism
  /\ Cardinality(fileInflight) <= maxParallelism
  /\ Cardinality(folderInflight) <= maxParallelism
  /\ (phase = "resolve" /\ opNext <= Len(ops) /\ SlotFree(opInflight))
       => ENABLED StartSelect(TRUE)
  /\ (phase = "files" /\ fileNext <= Len(filesToDelete) /\ SlotFree(fileInflight))
       => ENABLED StartFileDelete(TRUE)
  /\ (phase = "folders" /\ folderNext <= Len(foldersToDelete) /\ SlotFree(folderInflight))
       => ENABLED StartFolderDelete(TRUE)

\* The bound was binding in all three fan-outs of one run: an operation, a
\* file and a folder each waited while maxParallelism calls were in flight,
\* and the run resolved having deleted more files and more folders than there
\* are slots.
C6_Witness ==
  /\ waited = {"resolve", "files", "folders"}
  /\ Len(ops) > maxParallelism
  /\ status = "resolved"
  /\ deletedFiles > maxParallelism
  /\ deletedFolders > maxParallelism

(* C7 - Idempotence: a second run on the same operations, after a first    *)
(* run that completed, deletes nothing and raises no error.                *)
C7_Idempotent ==
  (run >= 2 /\ prevStatus = "resolved") =>
    /\ deletedFiles = 0
    /\ deletedFolders = 0
    /\ status # "rejected"
    /\ runError = NoError

\* The second run has completed after a first run that removed /proj/build
\* (nothing else removed anything).
C7_Witness ==
  /\ run = 2
  /\ prevStatus = "resolved"
  /\ status = "resolved"
  /\ Build \notin fs
  /\ extLeft = MaxExternal

(* C8 - Hard-failure propagation: when a deletion fails for a reason other *)
(* than a missing target, deleteFilesAsync fails, and with the first such  *)
(* error encountered in the run.                                           *)
C8_FirstHardErrorSurfaces ==
  firstError # NoError => (status = "rejected" /\ runError = firstError)

\* Two deletions have failed with different hard errors; the run carries
\* the first.
C8_Witness ==
  /\ status = "rejected"
  /\ runError = firstError
  /\ \E p \in Paths :
       IsHardFailure(outcome[p]) /\ DeletionError(outcome[p], p) # runError

(* C9 - Abort on hard failure: once a file deletion has failed with a      *)
(* non-missing error, no folder deletion of the run is ever started and no *)
(* further file deletion is scheduled.                                     *)
C9_AbortOnFailure ==
  [][/\ FileDeletionFailed' => ~FolderDeletionStarted'
     /\ (FileDeletionFailed /\ run' = run) => calls' = calls]_vars

\* A file deletion has failed, nothing is in flight any more, and a file
\* and the folders are left unattempted.
C9_Witness ==
  /\ FileDeletionFailed
  /\ fileInflight = {}
  /\ fileNext <= Len(filesToDelete)
  /\ Len(foldersToDelete) > 0
  /\ ~FolderDeletionStarted

(* C10 - Counter correctness: deletedFiles and deletedFolders equal the    *)
(* numbers of paths of filesToDelete and foldersToDelete whose deletion    *)
(* succeeded (no lost or duplicated increment); a completed run that       *)
(* nothing interfered with has counted every resolved path.                *)
C10_CountersCorrect ==
  /\ deletedFiles = Cardinality({f \in FilePaths : outcome[f] = "ok"})
  /\ deletedFolders = Cardinality({d \in FolderPaths : outcome[d] = "ok"})
  /\ \A p \in Paths : outcome[p] = "ok" => (p \in fs0 /\ p \notin fs)
  /\ (status = "resolved" /\ ~interfered) =>
       /\ deletedFiles = Cardinality(FilePaths)
       /\ deletedFolders = Cardinality(FolderPaths)

\* The scenario of the design document: a.txt, b.txt and /proj/build
\* resolve, the run completes with 2 files and 1 folder deleted.
C10_Witness ==
  /\ status = "resolved"
  /\ FilePaths = {FileA, FileB}
  /\ FolderPaths = {Build}
  /\ deletedFiles = 2
  /\ deletedFolders = 1
  /\ terminal[Len(terminal)] = SummaryLine(2, 1)


----------------------------------------------------------------------------
(* Vocabulary of the properties about the terminal *)

SummaryLines == {i \in 1..Len(terminal) : terminal[i].sev = "line"}
VerboseLines(text) ==
  {i \in 1..Len(terminal) : terminal[i].sev = "verbose" /\ terminal[i].text = text}
LinesAbout(p) == {i \in 1..Len(terminal) : terminal[i].path = p}

DeletionStarted == \E p \in Paths : calls[p] > 0
NothingInFlight == opInflight = {} /\ fileInflight = {} /\ folderInflight = {}

\* The selector call of the failing operation has been issued and has thrown.
SelectionFailed ==
  selFail >= 1 /\ selFail < opNext /\ selFail \notin opInflight

(* C11 - Summary reporting: no summary line when both counters are zero    *)
(* (and no deletion at all when the sets resolve empty); otherwise, on     *)
(* success, exactly one summary line, written last, after all deletions,   *)
(* carrying both counts with each noun singular exactly when its count     *)
(* is 1.                                                                   *)
C11_SummaryLine ==
  /\ status # "resolved" => SummaryLines = {}
  /\ status = "resolved" =>
       /\ NothingInFlight
       /\ (deletedFiles = 0 /\ deletedFolders = 0) => SummaryLines = {}
       /\ (deletedFiles > 0 \/ deletedFolders > 0) =>
            /\ SummaryLines = {Len(terminal)}
            /\ LET line == terminal[Len(terminal)] IN
                 /\ line.text = "Deleted"
                 /\ line.files = deletedFiles
                 /\ line.folders = deletedFolders
                 /\ (line.fileNoun = "file") <=> (deletedFiles = 1)
                 /\ (line.fileNoun = "files") <=> (deletedFiles # 1)
                 /\ (line.folderNoun = "folder") <=> (deletedFolders = 1)
                 /\ (line.folderNoun = "folders") <=> (deletedFolders # 1)
       /\ (filesToDelete = <<>> /\ foldersToDelete = <<>>) =>
            (~DeletionStarted /\ terminal = <<>>)

\* A run has completed with "Deleted 1 file and 2 folders".
C11_Witness ==
  /\ status = "resolved"
  /\ deletedFiles = 1
  /\ deletedFolders = 2
  /\ SummaryLines = {Len(terminal)}

(* C12 - Selection failure aborts before any deletion: when a selector     *)
(* call fails, deleteFilesAsync fails with that error and no deletion is   *)
(* ever attempted in the run; resolution does not change the filesystem.   *)
C12_SelectionFailureAborts ==
  /\ SelectionFailed =>
       /\ status = "rejected"
       /\ runError = SelectionError(selFail)
       /\ ~DeletionStarted
       /\ fs = fs0
  /\ phase = "resolve" => (fs = fs0 /\ ~DeletionStarted)

\* The second operation's selector has thrown after the first operation had
\* put paths into the sets; everything has settled and nothing was deleted.
C12_Witness ==
  /\ SelectionFailed
  /\ selFail = 2
  /\ NothingInFlight
  /\ Len(filesToDelete) > 0
  /\ Len(foldersToDelete) > 0

(* C13 - Pipeline sequencing: every selector call has completed before the *)
(* first deletion is started, and the summary is written only after every  *)
(* deletion has completed.                                                 *)
C13_StepsDoNotOverlap ==
  /\ DeletionStarted => (opInflight = {} /\ opNext > Len(ops))
  /\ SummaryLines # {} =>
       /\ NothingInFlight
       /\ fileNext > Len(filesToDelete)
       /\ folderNext > Len(foldersToDelete)
       /\ \A p \in FilePaths \cup FolderPaths : outcome[p] # "none"

\* Two operations were resolved, files and folders were deleted and the
\* summary has been written.
C13_Witness ==
  /\ SummaryLines # {}
  /\ Len(ops) = 2
  /\ deletedFiles >= 1
  /\ deletedFolders >= 1


(* C14 - Missing-target trace (as amended): a deletion target that turns   *)
(* out not to exist is absorbed as a success-no-op and nothing at all is   *)
(* written to the terminal for it, not even a verbose line.                *)
C14_MissingTargetSilent ==
  \A p \in Paths : outcome[p] = "ENOENT" => LinesAbout(p) = {}

\* C14 as originally stated: a verbose line is written for every target
\* that turned out not to exist.
C14_OriginalVerboseTrace ==
  \A p \in Paths :
    outcome[p] = "ENOENT" =>
      \E i \in LinesAbout(p) : terminal[i].sev = "verbose"

\* A missing file and a missing folder were absorbed in a run that did
\* write lines for the deletions that succeeded.
C14_Witness ==
  /\ \E f \in FilePaths : outcome[f] = "ENOENT"
  /\ \E d \in FolderPaths : outcome[d] = "ENOENT"
  /\ \E p \in Paths : outcome[p] = "ok"
  /\ Len(terminal) > 0
  /\ NothingInFlight

(* C15 - Per-item trace matches the counters: in every state, the number   *)
(* of verbose 'Deleted "<path>".' lines equals deletedFiles, the number of *)
(* verbose 'Deleted folder "<path>".' lines equals deletedFolders, and a   *)
(* path has exactly one such line exactly when its deletion has succeeded. *)
C15_TraceMatchesCounters ==
  /\ Cardinality(VerboseLines("Deleted")) = deletedFiles
  /\ Cardinality(VerboseLines("Deleted folder")) = deletedFolders
  /\ \A p \in Paths :
       LET about == {i \in LinesAbout(p) : terminal[i].sev = "verbose"} IN
         /\ Cardinality(about) = IF outcome[p] = "ok" THEN 1 ELSE 0
         /\ \A i \in about :
              terminal[i].text = IF IsDirectory(p) THEN "Deleted folder" ELSE "Deleted"

\* In the middle of the folder fan-out: files and a folder have been
\* deleted and traced while another folder deletion is in flight.
C15_Witness ==
  /\ status = "running"
  /\ deletedFiles >= 2
  /\ deletedFolders >= 1
  /\ folderInflight # {}


(* C16 - Failure scenario (as amended): when a deletion fails with a       *)
(* permission (or other non-missing) error, the run surfaces that error    *)
(* and writes no summary line; the counters count every deletion that has  *)
(* succeeded, those that complete after the failure was surfaced included. *)
FailedByDeletion == status = "rejected" /\ IsHardFailure(runError.code)

C16_FailedRunCounters ==
  [][/\ FailedByDeletion' =>
          /\ runError' = firstError'
          /\ SummaryLines' = {}
          /\ deletedFiles' = Cardinality({f \in FilePaths' : outcome'[f] = "ok"})
          /\ deletedFolders' = Cardinality({d \in FolderPaths' : outcome'[d] = "ok"})
     /\ (FailedByDeletion /\ run' = run) =>
          \A p \in Paths :
            (outcome[p] = "none" /\ outcome'[p] = "ok") =>
              deletedFiles' + deletedFolders' = deletedFiles + deletedFolders + 1]_vars

\* C16 as originally stated: once the failure has been surfaced the
\* counters no longer change, and the failed run writes no summary line.
C16_OriginalCountersFrozen ==
  [][/\ FailedByDeletion' => (runError' = firstError' /\ SummaryLines' = {})
     /\ (FailedByDeletion /\ run' = run) =>
          (deletedFiles' = deletedFiles /\ deletedFolders' = deletedFolders)]_vars

\* The deletion of /proj/locked.txt has failed with a permission error; the
\* run has rejected with it, another file was deleted and counted, and
\* nothing is in flight any more.
C16_Witness ==
  /\ FailedByDeletion
  /\ runError = DeletionError("EPERM", LockedTxt)
  /\ deletedFiles >= 1
  /\ SummaryLines = {}
  /\ NothingInFlight


(* C17 - Frame / at-most-once: a deletion primitive is invoked only on     *)
(* paths of the resolved sets (deleteFileAsync on filesToDelete,           *)
(* deleteFolderAsync on foldersToDelete, all of them selected by some      *)
(* operation), and at most once per path, even when several operations     *)
(* selected it.                                                            *)
C17_OnlyResolvedPathsOnce ==
  /\ \A p \in Paths :
       /\ calls[p] <= 1
       /\ calls[p] > 0 => (p \in FilePaths \cup FolderPaths /\ Selected(p))
       /\ outcome[p] # "none" => calls[p] = 1
  /\ fileInflight \subseteq FilePaths
  /\ folderInflight \subseteq FolderPaths
  /\ \A p \in Paths \ (FilePaths \cup FolderPaths) : p \in fs0 => p \in fs \/ interfered

\* Two operations selected the same file and the same folder; the run has
\* completed and each of the two was deleted by a single call.
C17_Witness ==
  /\ status = "resolved"
  /\ Len(ops) = 2
  /\ \E f \in FilePaths :
       f \in ops[1] /\ f \in ops[2] /\ calls[f] = 1 /\ outcome[f] = "ok"
  /\ \E d \in FolderPaths :
       d \in ops[1] /\ d \in ops[2] /\ calls[d] = 1 /\ outcome[d] = "ok"

(* C18 - Postcondition: when deleteFilesAsync completes without error and  *)
(* nothing outside the run has modified the filesystem, every path of the  *)
(* resolved filesToDelete and foldersToDelete is absent.                   *)
C18_ResolvedPathsAbsent ==
  (status = "resolved" /\ ~interfered) =>
    /\ \A p \in FilePaths \cup FolderPaths : p \notin fs
    /\ \A p \in Paths : Selected(p) => p \notin fs

\* A first run has completed, undisturbed, on sets of at least two files
\* and two folders.
C18_Witness ==
  /\ status = "resolved"
  /\ ~interfered
  /\ run = 1
  /\ Cardinality(FilePaths) >= 2
  /\ Cardinality(FolderPaths) >= 2


(* The deletion step run one call at a time, in the iteration order of the *)
(* two sets: one of the completion orders the fan-outs allow.              *)
RECURSIVE SequentialOutcome(_, _, _, _, _)
SequentialOutcome(files, folders, existing, nf, nd) ==
  IF files # <<>> THEN
    LET res == DeleteFileResult(Head(files), existing, locked) IN
      IF Rethrows(res)
      THEN [status |-> "rejected", files |-> nf, folders |-> nd]
      ELSE SequentialOutcome(Tail(files), folders,
                             IF res = "ok" THEN existing \ {Head(files)} ELSE existing,
                             CountAfter(nf, res), nd)
  ELSE IF folders # <<>> THEN
    LET res == DeleteFolderResult(Head(folders), existing, locked) IN
      IF Rethrows(res)
      THEN [status |-> "rejected", files |-> nf, folders |-> nd]
      ELSE SequentialOutcome(files, Tail(folders),
                             IF res = "ok" THEN existing \ {Head(folders)} ELSE existing,
                             nf, CountAfter(nd, res))
  ELSE [status |-> "resolved", files |-> nf, folders |-> nd]

\* The deletion step of this run is over and nothing interfered with it.
DeletionStepOver ==
  /\ status # "running"
  /\ runError.code # "SelectionError"
  /\ NothingInFlight
  /\ ~interfered

(* C19 - Schedule-independent outcome: for a fixed initial filesystem and  *)
(* fixed resolved sets, with no interference, the deletion step succeeds   *)
(* or fails, and on success leaves the same deletedFiles and               *)
(* deletedFolders, as under any other completion order (here: as when the  *)
(* deletions complete one by one in iteration order), also when            *)
(* foldersToDelete holds a folder together with one of its sub-folders.    *)
(* The counters of a failed step are never reported and are left out.      *)
C19_ScheduleIndependent ==
  DeletionStepOver =>
    LET ref == SequentialOutcome(filesToDelete, foldersToDelete, fs0, 0, 0) IN
      /\ status = ref.status
      /\ status = "resolved" =>
           (deletedFiles = ref.files /\ deletedFolders = ref.folders)


----------------------------------------------------------------------------
(* Scheduling: the event loop runs every callback that is ready, and every *)
(* selector call and deletion call that was issued eventually completes.   *)
(* Nothing obliges the environment to remove anything or the caller to run *)
(* again.                                                                  *)
Fairness ==
  /\ WF_vars(ResolveWithoutOperations)
  /\ WF_vars(StartSelect(FALSE))
  /\ WF_vars(\E i \in 1..MaxOps + 1 : CompleteSelect(i))
  /\ WF_vars(StartFileDelete(FALSE))
  /\ WF_vars(\E p \in Paths : CompleteFileDelete(p))
  /\ WF_vars(StartFolderDelete(FALSE))
  /\ WF_vars(\E p \in Paths : CompleteFolderDelete(p))

\* The runs that start from /proj/build holding a.txt and sub, next to
\* /proj/locked.txt: files and nested folders to resolve and delete.
LiveInit == Init /\ fs = {Build, FileA, Sub, LockedTxt}

FairSpec == LiveInit /\ [][Next]_vars /\ Fairness

\* deleteFilesAsync has resolved, every resolved path having been attempted.
SettledResolved ==
  /\ status = "resolved"
  /\ \A p \in FilePaths \cup FolderPaths : outcome[p] # "none"

(* C20 - Termination: if every selector call and every deletion call       *)
(* eventually completes, a running deleteFilesAsync eventually settles:    *)
(* it resolves after all resolved paths have been attempted, or it         *)
(* rejects with an error.                                                  *)
C20_EventuallySettles ==
  (status = "running") ~> (SettledResolved \/ (status = "rejected" /\ runError # NoError))

\* A second run has settled too, after the first had resolved having
\* deleted a.txt, sub and /proj/build.
C20_Witness ==
  /\ run = 2
  /\ prevStatus = "resolved"
  /\ SettledResolved
  /\ fs \cap {Build, FileA, Sub} = {}
  /\ extLeft = MaxExternal

====
